---- MODULE Spec2Model ----
(***************************************************************************)
(* Model of the finite-difference Schroedinger solver:                     *)
(*   src/src/PotentialsNew.py  the potential models                        *)
(*   src/src/HMatNew.py        Hamiltonian and RadialHamiltonian           *)
(*                                                                         *)
(* Numbers.  A Python/numpy float is modelled by an extended rational      *)
(* <<n, d>> in lowest terms with d >= 0; d = 0 encodes the IEEE specials   *)
(* <<1,0>> = inf, <<-1,0>> = -inf, <<0,0>> = nan.  Rounding is not         *)
(* modelled.  Python values are tagged records [t, a]: an ndarray carries  *)
(* its elements in a, None and an attribute that was never assigned carry  *)
(* an empty a.                                                             *)
(***************************************************************************)
EXTENDS Integers, Sequences, FiniteSets, TLC

\* ------------------------------------------------------------- bounds
\* longest grid passed to a constructor
MaxN == 3
\* grid coordinates are the integers 0..MaxCoord
MaxCoord == 2
\* angular momentum indices are -1..MaxL
MaxL == 1

\* ------------------------------------------------- extended rationals
Abs(n) == IF n < 0 THEN -n ELSE n
Sgn(n) == IF n < 0 THEN -1 ELSE IF n > 0 THEN 1 ELSE 0

RECURSIVE GCD(_, _)
GCD(a, b) == IF b = 0 THEN a ELSE GCD(b, a % b)

Norm(n, d) ==
    IF d = 0 THEN <<Sgn(n), 0>>
    ELSE LET s == IF d < 0 THEN -1 ELSE 1
             g == GCD(Abs(n), Abs(d))
         IN  <<(s * n) \div g, (s * d) \div g>>

R(n) == <<n, 1>>
NaN == <<0, 0>>
IsNaN(a) == a[2] = 0 /\ a[1] = 0
IsInf(a) == a[2] = 0 /\ a[1] # 0
IsFinite(a) == a[2] # 0
IsZero(a) == a[2] # 0 /\ a[1] = 0

RNeg(a) == <<-a[1], a[2]>>

RAdd(a, b) ==
    IF IsNaN(a) \/ IsNaN(b) THEN NaN
    ELSE IF IsInf(a) /\ IsInf(b) THEN (IF a[1] = b[1] THEN a ELSE NaN)
    ELSE IF IsInf(a) THEN a
    ELSE IF IsInf(b) THEN b
    ELSE Norm(a[1] * b[2] + b[1] * a[2], a[2] * b[2])

RSub(a, b) == RAdd(a, RNeg(b))

RMul(a, b) ==
    IF IsNaN(a) \/ IsNaN(b) THEN NaN
    ELSE IF IsInf(a) \/ IsInf(b)
         THEN (IF IsZero(a) \/ IsZero(b) THEN NaN ELSE <<Sgn(a[1]) * Sgn(b[1]), 0>>)
    ELSE Norm(a[1] * b[1], a[2] * b[2])

\* numpy true division: x/0 is +-inf (0/0 is nan) with a warning, never an exception
RDiv(a, b) ==
    IF IsNaN(a) \/ IsNaN(b) THEN NaN
    ELSE IF IsInf(b) THEN (IF IsInf(a) THEN NaN ELSE R(0))
    ELSE IF IsZero(b) THEN (IF IsZero(a) THEN NaN ELSE <<Sgn(a[1]), 0>>)
    ELSE IF IsInf(a) THEN <<Sgn(a[1]) * Sgn(b[1]), 0>>
    ELSE Norm(a[1] * b[2], a[2] * b[1])

RSq(a) == RMul(a, a)

\* comparisons of finite numbers (a comparison with nan is False in numpy)
RLe(a, b) == IsFinite(a) /\ IsFinite(b) /\ a[1] * b[2] <= b[1] * a[2]
RLt(a, b) == IsFinite(a) /\ IsFinite(b) /\ a[1] * b[2] < b[1] * a[2]
RGe(a, b) == RLe(b, a)
RGt(a, b) == RLt(b, a)

\* --------------------------------------------------------- Python values
NoneVal == [t |-> "None", a |-> <<>>]
Unset == [t |-> "unset", a |-> <<>>]
Arr(s) == [t |-> "ndarray", a |-> s]
Num(r) == [t |-> "float", a |-> r]
IsArr(v) == v.t = "ndarray"
IsSet(v) == v.t # "unset"

\* ------------------------------------------------------------ potentials
\* program constants of PotentialsNew.py
BarrierV0Default == 15
InfiniteWellSentinel == 100000
E_0 == Norm(51, 10)
C == Norm(85, 1000)
D == 15

\* Potential.__init__: the four shared parameters; the attributes only a
\* subclass assigns (xmin2, v0, omega, momentum) do not exist on the others
Potential_init(kind, mass, width, center, xmin) ==
    [kind |-> kind, mass |-> mass, width |-> width, center |-> center, xmin |-> xmin,
     xmin2 |-> Unset, v0 |-> Unset, omega |-> Unset, momentum |-> Unset]

Potential(mass, width, center, xmin) ==
    Potential_init("Potential", mass, width, center, xmin)
PotentialBarrier(mass, width, xmin, v0) ==
    [Potential_init("PotentialBarrier", mass, width, Num(R(0)), xmin) EXCEPT !.v0 = v0]
HarmonicOscillator(mass, width, omega, center) ==
    [Potential_init("HarmonicOscillator", mass, width, center, NoneVal) EXCEPT !.omega = omega]
FreeParticle(mass, momentum) ==
    [Potential_init("FreeParticle", mass, NoneVal, NoneVal, NoneVal) EXCEPT !.momentum = momentum]
InfinitePotentialWell(mass, width, xmin) ==
    Potential_init("InfinitePotentialWell", mass, width, NoneVal, xmin)
FinitePotentialWell(mass, width, xmin, v0) ==
    [Potential_init("FinitePotentialWell", mass, width, NoneVal, xmin) EXCEPT !.v0 = v0]
CoulombPotential ==
    Potential_init("CoulombPotential", NoneVal, NoneVal, NoneVal, NoneVal)
DoublePotentialWell(mass, width, xmin1, xmin2, v0) ==
    [Potential_init("DoublePotentialWell", mass, width, NoneVal, xmin1)
        EXCEPT !.xmin2 = xmin2, !.v0 = v0]
DoubleSmoothPotential(mass) ==
    Potential_init("DoubleSmoothPotential", mass, NoneVal, NoneVal, NoneVal)

\* a method body that holds only a docstring returns None
Potential_GetPotential(self, x) == NoneVal
Potential_GroundStateEnergy(self) == NoneVal

\* a characteristic energy is kept as an exact coefficient of its physical
\* constant (h^2, hbar, e, or 1): h^2/(8*m*w^2) is <<1, 8*m*w^2, "h^2">>
Energy(coef, unit) == [t |-> "float", a |-> <<coef[1], coef[2], unit>>]

\* variant: the upper end of the interval tested with < instead of <=
PotentialBarrier_GetPotentialStrict(self, x) ==
    LET xmax == RAdd(self.xmin.a, self.width.a)
    IN  Arr([i \in 1..Len(x.a) |->
                LET xi == x.a[i]
                IN  IF RGe(xi, self.xmin.a) /\ RLt(xi, xmax)
                    THEN self.v0.a ELSE R(0)])

PotentialBarrier_GetPotential(self, x) ==
    LET xmax == RAdd(self.xmin.a, self.width.a)
    IN  Arr([i \in 1..Len(x.a) |->
                LET xi == x.a[i]
                IN  IF RGe(xi, self.xmin.a) /\ RLe(xi, xmax)
                    THEN self.v0.a ELSE R(0)])
PotentialBarrier_GroundStateEnergy(self) ==
    Energy(RDiv(R(1), RMul(RMul(R(8), self.mass.a), RSq(self.width.a))), "h^2")

HarmonicOscillator_GetPotential(self, x) ==
    Arr([i \in 1..Len(x.a) |->
            LET xi == x.a[i]
            IN  RMul(RMul(RMul(Norm(1, 2), self.mass.a), RSq(self.omega.a)),
                     RSq(RSub(xi, self.center.a)))])
HarmonicOscillator_GroundStateEnergy(self) ==
    Energy(RMul(Norm(1, 2), self.omega.a), "hbar")

FreeParticle_GetPotential(self, x) == Arr([i \in 1..Len(x.a) |-> R(0)])
FreeParticle_GroundStateEnergy(self) ==
    Energy(RDiv(RSq(self.momentum.a), RMul(R(2), self.mass.a)), "1")

InfinitePotentialWell_GetPotential(self, x) ==
    LET xmax == RAdd(self.xmin.a, self.width.a)
    IN  Arr([i \in 1..Len(x.a) |->
                LET xi == x.a[i]
                IN  IF RLt(xi, self.xmin.a) \/ RGt(xi, xmax)
                    THEN R(InfiniteWellSentinel) ELSE R(0)])
InfinitePotentialWell_GroundStateEnergy(self) ==
    Energy(RDiv(R(1), RMul(RMul(R(8), self.mass.a), RSq(self.width.a))), "h^2")

FinitePotentialWell_GetPotential(self, x) ==
    LET xmax == RAdd(self.xmin.a, self.width.a)
    IN  Arr([i \in 1..Len(x.a) |->
                LET xi == x.a[i]
                IN  IF RLt(xi, self.xmin.a) \/ RGt(xi, xmax)
                    THEN self.v0.a ELSE R(0)])
FinitePotentialWell_GroundStateEnergy(self) ==
    Energy(RDiv(R(1), RMul(RMul(R(8), self.mass.a), RSq(self.width.a))), "h^2")

CoulombPotential_GetPotential(self, r) == Arr([i \in 1..Len(r.a) |-> RDiv(R(-1), r.a[i])])
CoulombPotential_GroundStateEnergy(self) == Energy(Norm(-136, 10), "e")

DoublePotentialWell_GetPotential(self, x) ==
    LET xmax1 == RAdd(self.xmin.a, self.width.a)
        xmax2 == RAdd(self.xmin2.a, self.width.a)
    IN  Arr([i \in 1..Len(x.a) |->
                LET xi == x.a[i]
                IN  IF \/ (RGe(xi, self.xmin.a) /\ RLe(xi, xmax1))
                       \/ (RGe(xi, self.xmin2.a) /\ RLe(xi, xmax2))
                    THEN R(0) ELSE self.v0.a])
DoublePotentialWell_GroundStateEnergy(self) ==
    Energy(RDiv(R(1), RMul(RMul(R(8), self.mass.a), RSq(RMul(R(2), self.width.a)))), "h^2")

DoubleSmoothPotential_GetPotential(self, x) ==
    Arr([i \in 1..Len(x.a) |->
            LET xi == x.a[i]
            IN  RAdd(RMul(E_0, RSub(RMul(C, RSq(RSq(xi))), RSq(xi))), R(D))])

\* method resolution: a class that does not define the method inherits the
\* base one (DoubleSmoothPotential defines no GroundStateEnergy)
GetPotential(self, x) ==
    CASE self.kind = "PotentialBarrier" -> PotentialBarrier_GetPotential(self, x)
      [] self.kind = "HarmonicOscillator" -> HarmonicOscillator_GetPotential(self, x)
      [] self.kind = "FreeParticle" -> FreeParticle_GetPotential(self, x)
      [] self.kind = "InfinitePotentialWell" -> InfinitePotentialWell_GetPotential(self, x)
      [] self.kind = "FinitePotentialWell" -> FinitePotentialWell_GetPotential(self, x)
      [] self.kind = "CoulombPotential" -> CoulombPotential_GetPotential(self, x)
      [] self.kind = "DoublePotentialWell" -> DoublePotentialWell_GetPotential(self, x)
      [] self.kind = "DoubleSmoothPotential" -> DoubleSmoothPotential_GetPotential(self, x)
      [] OTHER -> Potential_GetPotential(self, x)

GroundStateEnergy(self) ==
    CASE self.kind = "PotentialBarrier" -> PotentialBarrier_GroundStateEnergy(self)
      [] self.kind = "HarmonicOscillator" -> HarmonicOscillator_GroundStateEnergy(self)
      [] self.kind = "FreeParticle" -> FreeParticle_GroundStateEnergy(self)
      [] self.kind = "InfinitePotentialWell" -> InfinitePotentialWell_GroundStateEnergy(self)
      [] self.kind = "FinitePotentialWell" -> FinitePotentialWell_GroundStateEnergy(self)
      [] self.kind = "CoulombPotential" -> CoulombPotential_GroundStateEnergy(self)
      [] self.kind = "DoublePotentialWell" -> DoublePotentialWell_GroundStateEnergy(self)
      [] OTHER -> Potential_GroundStateEnergy(self)

\* the potential objects handed to the Hamiltonians; an object is referred to
\* by its index (a potential is shared by reference and never mutated)
Potentials ==
    << Potential(NoneVal, NoneVal, NoneVal, NoneVal),
       PotentialBarrier(Num(R(1)), Num(R(1)), Num(R(1)), Num(R(BarrierV0Default))),
       HarmonicOscillator(Num(R(1)), Num(R(1)), Num(R(1)), Num(R(1))),
       FreeParticle(Num(R(1)), Num(R(1))),
       InfinitePotentialWell(Num(R(1)), Num(R(1)), Num(R(0))),
       FinitePotentialWell(Num(R(1)), Num(R(1)), Num(R(1)), Num(R(7))),
       CoulombPotential,
       DoublePotentialWell(Num(R(1)), Num(Norm(1, 2)), Num(R(0)), Num(R(2)), Num(R(7))),
       DoubleSmoothPotential(Num(R(1))) >>

\* ----------------------------------------------------------------- state
VARIABLES
    args,   \* the arguments of the constructor call (none before it)
    obj,    \* the attributes of the Hamiltonian instance
    ctor,   \* "none" before the constructor ran, "returned", or the exception it raised
    th,     \* per caller: position in solve(), its locals, its outcome
    hist,   \* the solve() calls that returned, in order of return
    pot     \* evaluation of the barrier and the finite well on one grid

vars == <<args, obj, ctor, th, hist, pot>>

Threads == {"t1", "t2"}

Coords == 0..MaxCoord
Grids == UNION {[1..n -> {R(c) : c \in Coords}] : n \in 0..MaxN}
Ls == (-1)..MaxL

\* numpy: scalar (+) array, elementwise
ScalarPlus(c, v) == Arr([i \in 1..Len(v.a) |-> RAdd(c, v.a[i])])

\* numpy: array + array of one dimension, with broadcasting of a length-1 operand
np_add(a, b) ==
    IF Len(a.a) = Len(b.a)
    THEN [exc |-> "none", val |-> Arr([i \in 1..Len(a.a) |-> RAdd(a.a[i], b.a[i])])]
    ELSE IF Len(a.a) = 1
    THEN [exc |-> "none", val |-> Arr([i \in 1..Len(b.a) |-> RAdd(a.a[1], b.a[i])])]
    ELSE IF Len(b.a) = 1
    THEN [exc |-> "none", val |-> Arr([i \in 1..Len(a.a) |-> RAdd(a.a[i], b.a[1])])]
    ELSE [exc |-> "ValueError", val |-> Unset]

\* None + array: the object loop adds element by element and fails on the first
\* element; over an empty array nothing is added and an empty array results
None_add(b) ==
    IF Len(b.a) = 0 THEN [exc |-> "none", val |-> Arr(<<>>)]
    ELSE [exc |-> "TypeError", val |-> Unset]

\* np.full(n, c)
np_full(n, c) == Arr([i \in 1..n |-> c])

\* np.isclose(a, 0.0) with the default tolerances: |a| <= atol + rtol * 0
AtolInv == 100000000
isclose0(a) == IsFinite(a) /\ Abs(a[1]) * AtolInv <= a[2]

\* r[1:]
Tail1(r) == Arr([i \in 1..(Len(r.a) - 1) |-> r.a[i + 1]])

NoArgs == [cls |-> "none", potential |-> 0, grid |-> Unset, l |-> 0]
NoObj ==
    [potential |-> Unset, V |-> Unset, EMax |-> Unset, x |-> Unset, l |-> Unset,
     r |-> Unset, upperDiag |-> Unset, mainDiag |-> Unset, lowerDiag |-> Unset]
PotRef(k) == [t |-> "Potential", a |-> <<k>>]

\* ---------------------------------------------------------- Hamiltonian
Hamiltonian_init(self, potential, x) ==
    [exc |-> "none",
     self |-> [self EXCEPT !.potential = PotRef(potential),
                           !.V = GetPotential(Potentials[potential], x),
                           !.EMax = GroundStateEnergy(Potentials[potential]),
                           !.x = x]]

\* ---------------------------------------------------- RadialHamiltonian
\* variant: the assertion lets l = -1 through
AssertLOffByOne(l) == l >= -1

\* the assert of line 32
AssertL(l) == l >= 0

\* lines 37-40: the working grid
WorkingGrid(r) == IF isclose0(r.a[1]) THEN Tail1(r) ELSE r

\* l*(l+1)/(2*self.r**2)
Centrifugal(l, selfr) ==
    Arr([i \in 1..Len(selfr.a) |-> RDiv(R(l * (l + 1)), RMul(R(2), RSq(selfr.a[i])))])

\* variant: the potential evaluated on self.r, like the centrifugal term
EffectivePotentialOnWorkingGrid(potential, r, selfr, l) ==
    LET pv == GetPotential(Potentials[potential], selfr)
        c == Centrifugal(l, selfr)
    IN  IF IsArr(pv) THEN np_add(pv, c) ELSE None_add(c)

\* line 42: the potential is evaluated on the constructor's r, the centrifugal
\* term on self.r
EffectivePotential(potential, r, selfr, l) ==
    LET pv == GetPotential(Potentials[potential], r)
        c == Centrifugal(l, selfr)
    IN  IF IsArr(pv) THEN np_add(pv, c) ELSE None_add(c)

RadialHamiltonian_init(self, potential, r, l) ==
    IF ~AssertL(l) THEN [exc |-> "AssertionError", self |-> self]
    ELSE LET s1 == [self EXCEPT !.potential = PotRef(potential),
                                !.l = Num(R(l)), !.r = r]
         IN  IF Len(r.a) = 0 THEN [exc |-> "IndexError", self |-> s1]
             ELSE LET s2 == [s1 EXCEPT !.r = WorkingGrid(r)]
                      v == EffectivePotential(potential, r, s2.r, l)
                  IN  IF v.exc # "none" THEN [exc |-> v.exc, self |-> s2]
                      ELSE [exc |-> "none", self |-> [s2 EXCEPT !.V = v.val]]

\* ------------------------------------------------------------- solve()
\* the grid solve() reads: self.x in Hamiltonian, self.r in RadialHamiltonian
GridOf(cls, self) == IF cls = "Hamiltonian" THEN self.x ELSE self.r

\* lines 18-19 / 45-46
Alpha(grid) ==
    LET delta == RSub(grid.a[2], grid.a[1])
    IN  RDiv(R(1), RMul(R(2), RSq(delta)))

\* lines 22, 24 / 50, 52
OffDiag(grid, alpha) == np_full(Len(grid.a) - 1, RNeg(alpha))

\* variant: the kinetic term without its factor 2
MainDiagNoFactor(self, alpha) == ScalarPlus(alpha, self.V)

\* variant: the main diagonal updated in place once it exists
MainDiagAccumulate(self, alpha) ==
    IF IsSet(self.mainDiag) THEN ScalarPlus(RMul(R(2), alpha), self.mainDiag)
    ELSE ScalarPlus(RMul(R(2), alpha), self.V)

\* line 23 / 51
MainDiag(self, alpha) == ScalarPlus(RMul(R(2), alpha), self.V)

\* scipy.linalg.eigh_tridiagonal(d, e): rejects non-finite entries and a wrong
\* number of off-diagonal entries; otherwise returns the eigenvalues in ascending
\* order and the matrix whose column i belongs to eigenvalue i.  The spectrum is
\* kept symbolically: eigenvalues[i] = k says that entry i is the k-th smallest
\* eigenvalue of the tridiagonal matrix (d, e), eigenvectors[i] = k that column
\* i is the eigenvector of that k-th smallest eigenvalue.
NoRet == [t |-> "unset", eigenvalues |-> <<>>, eigenvectors |-> <<>>, d |-> <<>>, e |-> <<>>]
eigh_tridiagonal(d, e) ==
    IF \/ \E i \in 1..Len(d.a) : ~IsFinite(d.a[i])
       \/ \E i \in 1..Len(e.a) : ~IsFinite(e.a[i])
       \/ Len(d.a) # Len(e.a) + 1
    THEN [exc |-> "ValueError", val |-> NoRet]
    ELSE [exc |-> "none",
          val |-> [t |-> "tuple",
                   eigenvalues |-> [k \in 1..Len(d.a) |-> k],
                   eigenvectors |-> [k \in 1..Len(d.a) |-> k],
                   d |-> d.a, e |-> e.a]]

\* line 28 / 56
SolveReturn(res) == res

\* --------------------------------------------------------------- actions
NoLocal == NaN
IdleThread == [pc |-> "idle", alpha |-> NoLocal, ret |-> NoRet, exc |-> "none", began |-> 0]
PotIdle ==
    [x |-> Unset, xmin |-> R(0), width |-> R(0), v0 |-> R(0), barrier |-> Unset, well |-> Unset]

Init ==
    /\ args = NoArgs
    /\ obj = NoObj
    /\ ctor = "none"
    /\ th = [t \in Threads |-> IdleThread]
    /\ hist = <<>>
    /\ pot = PotIdle

Outcome(exc) == IF exc = "none" THEN "returned" ELSE exc

\* Hamiltonian(potential, x)
ConstructHamiltonian ==
    /\ ctor = "none"
    /\ \E p \in 1..Len(Potentials), x \in Grids :
          LET res == Hamiltonian_init(obj, p, Arr(x))
          IN  /\ args' = [cls |-> "Hamiltonian", potential |-> p, grid |-> Arr(x), l |-> 0]
              /\ obj' = res.self
              /\ ctor' = Outcome(res.exc)
    /\ UNCHANGED <<th, hist, pot>>

\* RadialHamiltonian(potential, r, l)
ConstructRadial ==
    /\ ctor = "none"
    /\ \E p \in 1..Len(Potentials), r \in Grids, l \in Ls :
          LET res == RadialHamiltonian_init(obj, p, Arr(r), l)
          IN  /\ args' = [cls |-> "RadialHamiltonian", potential |-> p, grid |-> Arr(r), l |-> l]
              /\ obj' = res.self
              /\ ctor' = Outcome(res.exc)
    /\ UNCHANGED <<th, hist, pot>>

Raise(t, e) == th' = [th EXCEPT ![t].pc = "raised", ![t].exc = e]

\* solve(), lines 18-19 / 45-48: the spacing and alpha (locals)
SolveBegin(t) ==
    /\ ctor = "returned"
    /\ th[t].pc = "idle"
    /\ LET grid == GridOf(args.cls, obj)
       IN  IF Len(grid.a) < 2
           THEN th' = [th EXCEPT ![t].pc = "raised", ![t].exc = "IndexError",
                                 ![t].began = Len(hist)]
           ELSE th' = [th EXCEPT ![t].pc = "upper", ![t].alpha = Alpha(grid),
                                 ![t].began = Len(hist)]
    /\ UNCHANGED <<args, obj, ctor, hist, pot>>

\* line 22 / 50
SolveUpper(t) ==
    /\ th[t].pc = "upper"
    /\ obj' = [obj EXCEPT !.upperDiag = OffDiag(GridOf(args.cls, obj), th[t].alpha)]
    /\ th' = [th EXCEPT ![t].pc = "main"]
    /\ UNCHANGED <<args, ctor, hist, pot>>

\* line 23 / 51
SolveMain(t) ==
    /\ th[t].pc = "main"
    /\ IF IsArr(obj.V)
       THEN /\ obj' = [obj EXCEPT !.mainDiag = MainDiag(obj, th[t].alpha)]
            /\ th' = [th EXCEPT ![t].pc = "lower"]
       ELSE /\ Raise(t, "TypeError")
            /\ obj' = obj
    /\ UNCHANGED <<args, ctor, hist, pot>>

\* line 24 / 52
SolveLower(t) ==
    /\ th[t].pc = "lower"
    /\ obj' = [obj EXCEPT !.lowerDiag = OffDiag(GridOf(args.cls, obj), th[t].alpha)]
    /\ th' = [th EXCEPT ![t].pc = "eig"]
    /\ UNCHANGED <<args, ctor, hist, pot>>

\* lines 27-28 / 55-56: the eigensolver reads the instance's diagonals
SolveEig(t) ==
    /\ th[t].pc = "eig"
    /\ LET res == eigh_tridiagonal(obj.mainDiag, obj.upperDiag)
       IN  IF res.exc # "none"
           THEN /\ Raise(t, res.exc)
                /\ hist' = hist
           ELSE /\ th' = [th EXCEPT ![t].pc = "done", ![t].ret = SolveReturn(res.val)]
                /\ hist' = Append(hist, [ret |-> SolveReturn(res.val),
                                         began |-> th[t].began, by |-> t])
    /\ UNCHANGED <<args, obj, ctor, pot>>

Next ==
    \/ ConstructHamiltonian
    \/ ConstructRadial
    \/ \E t \in Threads : SolveBegin(t)
    \/ \E t \in Threads : SolveUpper(t)
    \/ \E t \in Threads : SolveMain(t)
    \/ \E t \in Threads : SolveLower(t)
    \/ \E t \in Threads : SolveEig(t)

Spec == Init /\ [][Next]_vars

\* -------------------------------- the barrier and the finite well, evaluated
PotCoords == {R(c) : c \in (-1)..(MaxCoord + 1)}
PotGrids == UNION {[1..n -> PotCoords] : n \in 0..MaxN}
PotXmins == {R(0), R(1)}
PotWidths == {Norm(1, 2), R(1), R(2)}
PotV0s == {R(BarrierV0Default), R(-3), Norm(1, 2)}

PotInit ==
    /\ args = NoArgs
    /\ obj = NoObj
    /\ ctor = "none"
    /\ th = [t \in Threads |-> IdleThread]
    /\ hist = <<>>
    /\ pot \in {[x |-> Arr(g), xmin |-> m, width |-> w, v0 |-> v,
                 barrier |-> Unset, well |-> Unset] :
                   g \in PotGrids, m \in PotXmins, w \in PotWidths, v \in PotV0s}

EvalBarrier ==
    /\ ~IsSet(pot.barrier)
    /\ pot' = [pot EXCEPT !.barrier =
                  GetPotential(PotentialBarrier(Num(R(1)), Num(pot.width), Num(pot.xmin),
                                                Num(pot.v0)), pot.x)]
    /\ UNCHANGED <<args, obj, ctor, th, hist>>

EvalWell ==
    /\ ~IsSet(pot.well)
    /\ pot' = [pot EXCEPT !.well =
                  GetPotential(FinitePotentialWell(Num(R(1)), Num(pot.width), Num(pot.xmin),
                                                   Num(pot.v0)), pot.x)]
    /\ UNCHANGED <<args, obj, ctor, th, hist>>

PotNext == EvalBarrier \/ EvalWell

PotSpec == PotInit /\ [][PotNext]_vars

\* ---------------------------------------------------------------- claims
\* the instance as the constructor call of args leaves it
Constructed ==
    IF args.cls = "Hamiltonian"
    THEN Hamiltonian_init(NoObj, args.potential, args.grid).self
    ELSE RadialHamiltonian_init(NoObj, args.potential, args.grid, args.l).self

\* the grid passed to the constructor is strictly increasing
Increasing ==
    \A i \in 1..(Len(args.grid.a) - 1) : RLt(args.grid.a[i], args.grid.a[i + 1])

\* the potential passed to the constructor is of a class that defines GetPotential
Overrides == Potentials[args.potential].kind # "Potential"

\* the radial constructor was called with l >= 0, a concrete potential and an
\* increasing grid whose first point is zero
TrimCase ==
    /\ ctor # "none"
    /\ args.cls = "RadialHamiltonian"
    /\ Overrides
    /\ Increasing
    /\ args.l >= 0
    /\ Len(args.grid.a) >= 1
    /\ isclose0(args.grid.a[1])

\* C1: a RadialHamiltonian built with l >= 0 on an increasing grid of length N whose
\* first point is zero is constructed successfully, works on r[1:] (length N-1) and
\* stores an effective potential of length N-1.
C1_TrimmedConstruction ==
    TrimCase =>
        /\ ctor = "returned"
        /\ obj.r = Tail1(args.grid)
        /\ IsArr(obj.V)
        /\ Len(obj.V.a) = Len(args.grid.a) - 1

\* C2: every solve() that returns, of either class, returns as many eigenvalues
\* as the grid passed to the constructor has points, in ascending order (entry i
\* is the i-th smallest eigenvalue), and eigenvector column i belongs to
\* eigenvalue i.
C2_SpectrumShape ==
    \A t \in Threads :
        th[t].pc = "done" =>
            LET w == th[t].ret.eigenvalues
                v == th[t].ret.eigenvectors
            IN  /\ Len(w) = Len(args.grid.a)
                /\ Len(v) = Len(w)
                /\ \A i, j \in 1..Len(w) : i < j => w[i] <= w[j]
                /\ \A i \in 1..Len(w) : v[i] = w[i]

C2_Witness ==
    \E t \in Threads :
        /\ th[t].pc = "done"
        /\ args.cls = "RadialHamiltonian"
        /\ args.l > 0
        /\ Len(th[t].ret.eigenvalues) = MaxN

\* C3: after a Hamiltonian.solve() that returned, on a grid of length N, the main
\* diagonal has length N with entry i equal to 2*alpha + V[i], the upper and the
\* lower off-diagonal are equal, have length N-1 and hold -alpha everywhere,
\* with alpha = 1/(2*(grid[1]-grid[0])^2) and V the array stored at construction.
C3_Tridiagonal ==
    (args.cls = "Hamiltonian" /\ \E t \in Threads : th[t].pc = "done") =>
        LET x == args.grid.a
            N == Len(x)
            alpha == RDiv(R(1), RMul(R(2), RMul(RSub(x[2], x[1]), RSub(x[2], x[1]))))
        IN  /\ obj.V = Constructed.V
            /\ IsArr(obj.mainDiag) /\ IsArr(obj.upperDiag) /\ IsArr(obj.lowerDiag)
            /\ Len(obj.mainDiag.a) = N
            /\ \A i \in 1..N : obj.mainDiag.a[i] = RAdd(RMul(R(2), alpha), obj.V.a[i])
            /\ obj.upperDiag = obj.lowerDiag
            /\ Len(obj.upperDiag.a) = N - 1
            /\ \A i \in 1..(N - 1) : obj.upperDiag.a[i] = RNeg(alpha)

C3_Witness ==
    /\ args.cls = "Hamiltonian"
    /\ \E t \in Threads : th[t].pc = "done"
    /\ Len(args.grid.a) = MaxN
    /\ \E i \in 1..Len(obj.V.a) : ~IsZero(obj.V.a[i])

\* C4: RadialHamiltonian with l < 0 is rejected (the assertion fails) before the
\* grid is trimmed or the potential evaluated: no attribute of the instance is set.
C4_NegativeLRejected ==
    (ctor # "none" /\ args.cls = "RadialHamiltonian" /\ args.l < 0) =>
        /\ ctor = "AssertionError"
        /\ obj = NoObj

C4_Witness ==
    /\ ctor = "AssertionError"
    /\ args.l < 0
    /\ Len(args.grid.a) >= 2

\* C5: a grid of length < 2 (for the radial class also a working grid that the
\* trimming leaves with fewer than 2 points) never reaches the computation of the
\* spacing: no solve() call gets past its entry on such a grid.
C5_ShortGridNeverReachesDelta ==
    \A t \in Threads :
        (th[t].pc # "idle" /\ Overrides) => Len(GridOf(args.cls, obj).a) >= 2

\* C6: a potential-value array whose length differs from the grid's is never
\* stored by a constructor that returns: the mismatch is an error at construction.
C6_ShapeMismatchRejected ==
    (ctor = "returned" /\ IsArr(obj.V) /\ Increasing) =>
        Len(obj.V.a) = Len(GridOf(args.cls, obj).a)

\* C7: a constructor that returns never stored None as V or as EMax: evaluate
\* and characteristicEnergy of a potential that does not override them fail.
C7_NoNoneStored ==
    (ctor = "returned" /\ Increasing /\ Len(args.grid.a) >= 2) =>
        (obj.V.t # "None" /\ obj.EMax.t # "None")

\* C8: of two solve() calls on the same instance, the second begun after the
\* first returned, the second returns what the first returned (the same
\* eigenvalues and eigenvectors, from the same diagonals), and neither the
\* stored potential-value array nor the grid differs from what construction left.
C8_SolveTwice ==
    /\ \A i, j \in 1..Len(hist) :
          (i < j /\ hist[j].began >= i) => hist[j].ret = hist[i].ret
    /\ ctor = "returned" =>
          /\ obj.V = Constructed.V
          /\ GridOf(args.cls, obj) = GridOf(args.cls, Constructed)

C8_Witness ==
    /\ Len(hist) = 2
    /\ hist[2].began = 1
    /\ hist[1].by # hist[2].by
    /\ Len(hist[2].ret.eigenvalues) = MaxN

\* C9: however two solve() calls on one instance interleave, each returns what a
\* lone solve() on the freshly constructed instance returns, and the diagonal
\* attributes only ever hold what a lone solve() writes, in the order it writes them.
C9_Reentrant ==
    ctor = "returned" =>
        LET grid == GridOf(args.cls, Constructed)
            lone == IF Len(grid.a) < 2 THEN [exc |-> "IndexError", val |-> NoRet]
                    ELSE IF ~IsArr(Constructed.V) THEN [exc |-> "TypeError", val |-> NoRet]
                    ELSE eigh_tridiagonal(MainDiag(Constructed, Alpha(grid)),
                                          OffDiag(grid, Alpha(grid)))
        IN  /\ \A t \in Threads :
                  /\ th[t].pc = "done" => (lone.exc = "none" /\ th[t].ret = SolveReturn(lone.val))
                  /\ th[t].pc = "raised" => th[t].exc = lone.exc
            /\ \A k \in 1..Len(hist) : hist[k].ret = SolveReturn(lone.val)
            /\ IsSet(obj.upperDiag) => obj.upperDiag = OffDiag(grid, Alpha(grid))
            /\ IsSet(obj.mainDiag) =>
                  (obj.mainDiag = MainDiag(Constructed, Alpha(grid)) /\ IsSet(obj.upperDiag))
            /\ IsSet(obj.lowerDiag) =>
                  (obj.lowerDiag = OffDiag(grid, Alpha(grid)) /\ IsSet(obj.mainDiag))

\* both calls began before either returned, and both returned
C9_Witness ==
    /\ Len(hist) = 2
    /\ hist[1].began = 0
    /\ hist[2].began = 0
    /\ Len(hist[2].ret.eigenvalues) = MaxN

\* C10: for the same xmin, width > 0 and v0 # 0, on every grid the barrier is v0
\* and the finite well 0 at the points with xmin <= x <= xmin + width, the barrier
\* is 0 and the finite well v0 at all other points, and both arrays have the
\* grid's length.
C10_Complement ==
    (IsSet(pot.barrier) /\ IsSet(pot.well)) =>
        /\ IsArr(pot.barrier) /\ IsArr(pot.well)
        /\ Len(pot.barrier.a) = Len(pot.x.a)
        /\ Len(pot.well.a) = Len(pot.x.a)
        /\ \A i \in 1..Len(pot.x.a) :
              LET xi == pot.x.a[i]
                  inside == RLe(pot.xmin, xi) /\ RLe(xi, RAdd(pot.xmin, pot.width))
              IN  IF inside
                  THEN pot.barrier.a[i] = pot.v0 /\ pot.well.a[i] = R(0)
                  ELSE pot.barrier.a[i] = R(0) /\ pot.well.a[i] = pot.v0

\* both evaluated on a grid with a point on the upper end of the interval, a
\* point on the lower end and a point outside
C10_Witness ==
    /\ IsSet(pot.barrier) /\ IsSet(pot.well)
    /\ \E i, j, k \in 1..Len(pot.x.a) :
          /\ pot.x.a[i] = RAdd(pot.xmin, pot.width)
          /\ pot.x.a[j] = pot.xmin
          /\ RLt(RAdd(pot.xmin, pot.width), pot.x.a[k])

====
